---- MODULE Spec2Model ----
(***************************************************************************)
(* A model of lunar-logger: the filter matching (filter), the accept       *)
(* decision and dual-sink write of Logger::log, and the one-time global    *)
(* registration of Logger::enable_logger, run by concurrent threads.       *)
(*                                                                         *)
(* Strings are sequences of one-character strings, so that str::split is   *)
(* computed and not assumed.  A log line is the record of the fields that  *)
(* the format! of Logger::log puts into it; the timestamp is left out.     *)
(***************************************************************************)
EXTENDS Integers, Sequences, FiniteSets, TLC

VARIABLES
    args,             \* inputs of the pure function under check (filter / accept decision)
    ret,              \* its result: <<>> until the function was applied, then <<value>>
    INTERNAL_LOGGER,  \* the OnceLock<Arc<Logger>>: <<>> or <<the installed Logger>>
    max_level,        \* the log crate's process-wide gate (log::set_max_level)
    log_logger,       \* the log crate's registered logger: "none", "ours", "foreign"
    fs,               \* the log file on disk: [exists, content]
    pos,              \* write offset of the installed Logger's file handle
    lock,             \* the RwLock of log_file: [writers (live write guards), poisoned]
    console,          \* the lines print! wrote to standard output
    pc,               \* per thread: position in enable_logger / log
    self,             \* per thread: the Logger its enable_logger call owns
    frames,           \* per thread: the stack of Logger::log calls (outermost first)
    returns,          \* the finished enable_logger calls, in order of return: [result, late]
    late,             \* per thread: its enable_logger call began after one had returned Ok
    owed,             \* per thread: accepted lines not yet printed by their log call
    file_sink,        \* per thread: what the file write of its log call did: "none", "written", "failed"
    emitted           \* number of log macro calls made by the application so far

vars == <<args, ret, INTERNAL_LOGGER, max_level, log_logger, fs, pos, lock,
          console, pc, self, frames, returns, late, owed, file_sink, emitted>>

-----------------------------------------------------------------------------
(* Bounds *)

MaxTargetLen == 7    \* longest source identifier given to filter
MaxPatternLen == 1   \* longest filter pattern given to filter
MaxFilters == 2      \* most rules in a rule set of the accept decision
MaxEnables == 2      \* enable_logger calls per run
MaxEmits == 2        \* log macro calls per run

None == "None"       \* Option::None of log_file
Some == "Some"

-----------------------------------------------------------------------------
(* log::LevelFilter and log::Level, ordered as the log crate orders them *)

Off == 0
Error == 1
Warn == 2
Info == 3
Debug == 4
Trace == 5

LevelFilters == Off..Trace
Levels == Error..Trace   \* a record's level is never Off

\* FilterType
Module == "Module"
Crate == "Crate"
FilterTypes == {Module, Crate}

-----------------------------------------------------------------------------
(* Strings *)

Chars == {"x", "y", ":"}

RECURSIVE StringsUpTo(_)
StringsUpTo(n) ==
    IF n = 0 THEN {<<>>}
    ELSE LET shorter == StringsUpTo(n - 1)
         IN  shorter \cup {Append(s, c) : s \in {t \in shorter : Len(t) = n - 1}, c \in Chars}

\* data.split("::"): the pieces between non-overlapping "::", scanned left to
\* right; the empty string gives one empty piece.
RECURSIVE SplitFrom(_, _, _)
SplitFrom(data, i, cur) ==
    IF i > Len(data) THEN <<cur>>
    ELSE IF data[i] = ":" /\ i + 1 <= Len(data) /\ data[i + 1] = ":"
         THEN <<cur>> \o SplitFrom(data, i + 2, <<>>)
         ELSE SplitFrom(data, i + 1, Append(cur, data[i]))

split(data) == SplitFrom(data, 1, <<>>)

\* Iterator::any over the rest of the split iterator
RECURSIVE any(_, _)
any(iter, x) ==
    IF iter = <<>> THEN FALSE
    ELSE IF Head(iter) = x THEN TRUE ELSE any(Tail(iter), x)

\* A filter that forgets to take the crate name off the iterator first.
filter_any_component(filter_name, filter_type, data) ==
    LET components == split(data)
        crate_name == Head(components)
    IN  IF filter_type = Module THEN any(components, filter_name)
        ELSE crate_name = filter_name

\* A filter that matches the crate name against the whole remaining path.
filter_crate_anywhere(filter_name, filter_type, data) ==
    LET components == split(data)
        rest == Tail(components)
    IN  IF filter_type = Module THEN any(rest, filter_name)
        ELSE any(components, filter_name)

\* fn filter(filter, filter_type, data)
filter(filter_name, filter_type, data) ==
    LET components == split(data)
        crate_name == Head(components)     \* split.next().unwrap()
        rest == Tail(components)           \* what the iterator still holds
    IN  IF filter_type = Module THEN any(rest, filter_name)
        ELSE crate_name = filter_name

-----------------------------------------------------------------------------
(* The accept decision of Logger::log (lines 247-263) *)

\* The loop over self.filters, from rule i on: TRUE when the record passes.
RECURSIVE ScanFilters(_, _, _, _)
ScanFilters(logger, target, msg_level, i) ==
    IF i > Len(logger.filters)
    THEN \* not filtered: the default level decides
         ~(msg_level > logger.default_level)
    ELSE LET f == logger.filters[i]
         IN  IF filter(f.name, f.filter_type, target)
             THEN \* return when less severe than the rule, else filtered = true; break
                  ~(msg_level > f.level)
             ELSE ScanFilters(logger, target, msg_level, i + 1)

\* A loop that does not break on a match that passes (filtered = true without
\* the break), so that the rules after the first matching one are consulted too.
log_accepts_no_break(logger, target, msg_level) ==
    LET matching == {i \in 1..Len(logger.filters) :
                        filter(logger.filters[i].name, logger.filters[i].filter_type, target)}
    IN  IF matching = {} THEN ~(msg_level > logger.default_level)
        ELSE \A i \in matching : ~(msg_level > logger.filters[i].level)

log_accepts(logger, target, msg_level) == ScanFilters(logger, target, msg_level, 1)

-----------------------------------------------------------------------------
(* Logger values *)

\* Logger::new(): no filters, Info, no file, color on.
\* generate_log_name: the path under the user's home, with the time in it.
generate_log_name == "/home/user/.local/share/lunar-logging/log-time.log"

Logger_new ==
    [filters |-> <<>>, log_to_file |-> FALSE, default_level |-> Info,
     log_file |-> None, use_color |-> TRUE, log_filename |-> generate_log_name]

\* Logger::add_filter pushes the rule at the end.
add_filter(logger, module_name, filter_type, level) ==
    [logger EXCEPT !.filters =
        Append(@, [name |-> module_name, filter_type |-> filter_type, level |-> level])]

\* Logger::set_default_filter
set_default_filter(logger, level) == [logger EXCEPT !.default_level = level]

\* The paths given as log file names, and the ones that are directories.
Paths == {"app.log", "logs/"}
is_dir(filename) == filename = "logs/"

\* Logger::set_log_file_name: the Result, and the Logger after the call.
set_log_file_name(logger, filename) ==
    IF is_dir(filename)
    THEN [result |-> "InvalidFiname", logger |-> logger]
    ELSE [result |-> "Ok", logger |-> [logger EXCEPT !.log_filename = filename]]

\* Logger::set_log_to_file
set_log_to_file(logger) == [logger EXCEPT !.log_to_file = TRUE]

\* Logger::use_color
use_color(logger, value) == [logger EXCEPT !.use_color = value]

SeqsUpTo(S, n) == UNION {[1..k -> S] : k \in 0..n}

-----------------------------------------------------------------------------
(* The state of the process before any thread ran *)

Threads == {1, 2}

Quiet ==
    /\ INTERNAL_LOGGER = <<>>
    /\ max_level = Off            \* the log crate starts with LevelFilter::Off
    /\ log_logger = "none"
    /\ pos = 0
    /\ lock = [writers |-> {}, poisoned |-> FALSE]
    /\ console = <<>>
    /\ pc = [t \in Threads |-> "idle"]
    /\ self = [t \in Threads |-> <<>>]
    /\ frames = [t \in Threads |-> <<>>]
    /\ returns = <<>>
    /\ late = [t \in Threads |-> FALSE]
    /\ owed = [t \in Threads |-> <<>>]
    /\ file_sink = [t \in Threads |-> "none"]
    /\ emitted = 0

system == <<INTERNAL_LOGGER, max_level, log_logger, fs, pos, lock,
            console, pc, self, frames, returns, late, owed, file_sink, emitted>>

-----------------------------------------------------------------------------
(* The process: threads that call enable_logger and the log macros *)

LunarLogger == <<"l", "u", "n", "a", "r", "_", "l", "o", "g", "g", "e", "r">>

\* The Loggers handed to enable_logger: Logger::new() changed by the setters.
ToFile == set_log_to_file(Logger_new)
XTrace == add_filter(ToFile, <<"x">>, Crate, Trace)
EnableLoggers ==
    {Logger_new,                             \* console only, Info
     ToFile,                                 \* file, Info
     use_color(XTrace, FALSE),               \* file, Info, "x" at Trace, no color
     set_default_filter(XTrace, Off),        \* file, Off, "x" at Trace
     set_default_filter(Logger_new, Off)}    \* console only, everything off

\* The records the application emits.
EmitRecords ==
    {[target |-> <<"x", ":", ":", "y">>, level |-> Debug],
     [target |-> <<"y">>, level |-> Info]}

\* The log file before the process started: absent, empty, or with old content.
OldLine == [line |-> "old"]
Hole == [line |-> "hole"]    \* the zero bytes of a gap left by a write past the end
InitialFiles ==
    {[exists |-> FALSE, content |-> <<>>],
     [exists |-> TRUE, content |-> <<>>],
     [exists |-> TRUE, content |-> <<OldLine>>]}

Init ==
    /\ args = <<>>
    /\ ret = <<>>
    /\ fs \in InitialFiles
    /\ Quiet

EnablePcs == {"create_file", "open", "set_max_level", "set", "set_logger"}

EnablesStarted == Len(returns) + Cardinality({t \in Threads : pc[t] \in EnablePcs})

\* enable_logger returns r: self, if still owned, is dropped.
Return(t, r) ==
    /\ returns' = Append(returns, [result |-> r, late |-> late[t]])
    /\ pc' = [pc EXCEPT ![t] = "idle"]
    /\ self' = [self EXCEPT ![t] = <<>>]

\* The call logger.enable_logger(): self is moved into the call.
EnableLogger(t) ==
    /\ pc[t] = "idle"
    /\ EnablesStarted < MaxEnables
    /\ \E logger \in EnableLoggers :
          /\ self' = [self EXCEPT ![t] = <<logger>>]
          /\ pc' = [pc EXCEPT ![t] =
                        IF logger.log_to_file THEN "create_file" ELSE "set_max_level"]
    /\ late' = [late EXCEPT ![t] = \E i \in 1..Len(returns) : returns[i].result = "Ok"]
    /\ UNCHANGED <<args, ret, INTERNAL_LOGGER, max_level, log_logger, fs, pos, lock,
                   console, frames, returns, owed, file_sink, emitted>>

\* std::fs::File::create(path): creates the file, or truncates the one there.
Created(file) == [exists |-> TRUE, content |-> <<>>]

\* create_file(&self.log_filename): create_dir_all and File::create, or an
\* I/O error that enable_logger returns as FileError.
create_file(t) ==
    /\ pc[t] = "create_file"
    /\ \/ /\ fs' = Created(fs)
          /\ pc' = [pc EXCEPT ![t] = "open"]
          /\ UNCHANGED <<self, returns>>
       \/ /\ Return(t, "FileError")
          /\ UNCHANGED fs
    /\ UNCHANGED <<args, late, file_sink, ret, INTERNAL_LOGGER, max_level, log_logger, pos, lock,
                   console, frames, owed, emitted>>

\* OpenOptions::new().write(true).create(true).truncate(false).open(): the
\* handle starts at offset 0 and the content is kept.
open(t) ==
    /\ pc[t] = "open"
    /\ \/ /\ fs' = [exists |-> TRUE, content |-> fs.content]
          /\ self' = [self EXCEPT ![t] = <<[self[t][1] EXCEPT !.log_file = Some]>>]
          /\ pc' = [pc EXCEPT ![t] = "set_max_level"]
          /\ UNCHANGED returns
       \/ /\ Return(t, "FileError")
          /\ UNCHANGED fs
    /\ UNCHANGED <<args, late, file_sink, ret, INTERNAL_LOGGER, max_level, log_logger, pos, lock,
                   console, frames, owed, emitted>>

Max(a, b) == IF a >= b THEN a ELSE b

RECURSIVE MaxOfLevels(_, _)
MaxOfLevels(filters, acc) ==
    IF filters = <<>> THEN acc
    ELSE MaxOfLevels(Tail(filters), Max(acc, Head(filters).level))

\* filters.iter().map(|i| i.2).max().unwrap_or(default_level).max(default_level)
compute_max_level(logger) == MaxOfLevels(logger.filters, logger.default_level)

\* log::set_max_level(max_level)
set_max_level(t) ==
    /\ pc[t] = "set_max_level"
    /\ max_level' = compute_max_level(self[t][1])
    /\ pc' = [pc EXCEPT ![t] = "set"]
    /\ UNCHANGED <<args, late, file_sink, ret, INTERNAL_LOGGER, log_logger, fs, pos, lock,
                   console, self, frames, returns, owed, emitted>>

\* A cell that takes the new value whatever it holds.
OnceLock_overwrite(cell, value) == <<value>>

\* OnceLock::set: the value goes in only when the cell is empty.
OnceLock_set(cell, value) == IF cell = <<>> THEN <<value>> ELSE cell

\* INTERNAL_LOGGER.set(Arc::new(self)), and the get() that follows
set(t) ==
    /\ pc[t] = "set"
    /\ INTERNAL_LOGGER' = OnceLock_set(INTERNAL_LOGGER, self[t][1])
    /\ IF INTERNAL_LOGGER = <<>>
       THEN /\ pos' = 0                      \* the installed handle, just opened
            /\ self' = [self EXCEPT ![t] = <<>>]   \* moved into the cell
            /\ pc' = [pc EXCEPT ![t] = "set_logger"]
            /\ UNCHANGED returns
       ELSE /\ Return(t, "LoggerAlreadySet")
            /\ UNCHANGED pos
    /\ UNCHANGED <<args, late, file_sink, ret, max_level, log_logger, fs, lock,
                   console, frames, owed, emitted>>

\* log::set_logger(logger.as_ref()): fails when the log crate has a logger.
set_logger(t) ==
    /\ pc[t] = "set_logger"
    /\ IF log_logger = "none"
       THEN /\ log_logger' = "ours"
            /\ Return(t, "Ok")
       ELSE /\ UNCHANGED log_logger
            /\ Return(t, "LoggerAlreadySet")
    /\ UNCHANGED <<args, late, file_sink, ret, INTERNAL_LOGGER, max_level, fs, pos, lock,
                   console, frames, owed, emitted>>

\* Another crate of the program registers its logger with the log crate.
ForeignSetLogger ==
    /\ log_logger = "none"
    /\ log_logger' = "foreign"
    /\ UNCHANGED <<args, late, file_sink, ret, INTERNAL_LOGGER, max_level, fs, pos, lock,
                   console, pc, self, frames, returns, owed, emitted>>

-----------------------------------------------------------------------------
(* Logger::log, reached through the log macros *)

Installed == INTERNAL_LOGGER[1]

\* What a log macro does with a record: the gate of the log crate, then the
\* registered logger.  TRUE when the record reaches Logger::log of the
\* installed Logger and passes its filters.
Dispatched(target, level) ==
    /\ level <= max_level
    /\ log_logger = "ours"
    /\ log_accepts(Installed, target, level)

\* The line of lines 271-281: the fields the format! uses.
Output(logger, target, level) ==
    [color |-> logger.use_color, level |-> level, target |-> target]

\* The first part of Logger::log for an accepted record, up to the file sink.
EnterLog(t, target, level) ==
    LET output == Output(Installed, target, level)
    IN  /\ frames' = [frames EXCEPT ![t] = Append(@, output)]
        /\ owed' = [owed EXCEPT ![t] = Append(@, output)]
        /\ pc' = [pc EXCEPT ![t] = IF Installed.log_file = Some THEN "lock" ELSE "print"]

\* The application calls a log macro (log::info! and the like).
Emit(t) ==
    /\ pc[t] = "idle"
    /\ emitted < MaxEmits
    /\ emitted' = emitted + 1
    /\ \E record \in EmitRecords :
          IF Dispatched(record.target, record.level)
          THEN EnterLog(t, record.target, record.level)
          ELSE UNCHANGED <<frames, owed, pc>>
    /\ UNCHANGED <<args, late, file_sink, ret, INTERNAL_LOGGER, max_level, log_logger, fs, pos, lock,
                   console, self, returns>>

\* A panic unwinds the thread: a write guard it holds is dropped, which
\* poisons the lock.
Panic(t) ==
    /\ pc' = [pc EXCEPT ![t] = "panicked"]
    /\ frames' = [frames EXCEPT ![t] = <<>>]
    /\ file_sink' = [file_sink EXCEPT ![t] = "none"]
    /\ lock' = IF t \in lock.writers
                THEN [writers |-> lock.writers \ {t}, poisoned |-> TRUE]
                ELSE lock

\* A lock that is handed out while another guard is alive.
CanAcquire_unguarded(t) == ~lock.poisoned

\* RwLock::write gives the guard when no guard is alive.
CanAcquire(t) == lock.writers = {} /\ ~lock.poisoned

\* f.write().unwrap(): waits while another guard is alive; panics on a
\* poisoned lock; a thread that already holds the guard waits for ever or
\* panics (std: "might panic when called if the lock is already held by the
\* current thread").
AcquireWrite(t) ==
    /\ pc[t] = "lock"
    /\ \/ /\ CanAcquire(t)
          /\ lock' = [lock EXCEPT !.writers = @ \cup {t}]
          /\ pc' = [pc EXCEPT ![t] = "write"]
          /\ UNCHANGED <<frames, file_sink>>
       \/ /\ lock.writers = {} /\ lock.poisoned
          /\ Panic(t)
       \/ /\ t \in lock.writers
          /\ Panic(t)
    /\ UNCHANGED <<args, late, ret, INTERNAL_LOGGER, max_level, log_logger, fs, pos,
                   console, self, returns, owed, emitted>>

RECURSIVE Holes(_)
Holes(n) == IF n <= 0 THEN <<>> ELSE <<Hole>> \o Holes(n - 1)

\* A write that puts the line down twice.
WriteAt_twice(content, p, line) ==
    content \o Holes(p - Len(content)) \o <<line, line>>

\* File::write at offset p of a handle opened without append: the line goes
\* over what is at p, or after a gap when p is past the end.
WriteAt(content, p, line) ==
    IF p < Len(content) THEN [content EXCEPT ![p + 1] = line]
    ELSE content \o Holes(p - Len(content)) \o <<line>>

\* .write(output.as_bytes()) under the guard, the guard's release at the end
\* of the if-let, and, on Err, log::error! called while the guard is alive.
\* A line is one slot of the file: Ok puts the whole line at the handle's
\* offset, Err puts nothing.
WriteFile(t) ==
    /\ pc[t] = "write"
    /\ \/ /\ fs' = [fs EXCEPT !.content = WriteAt(@, pos, frames[t][Len(frames[t])])]
          /\ pos' = pos + 1
          /\ lock' = [lock EXCEPT !.writers = @ \ {t}]
          /\ pc' = [pc EXCEPT ![t] = "print"]
          /\ file_sink' = [file_sink EXCEPT ![t] = "written"]
          /\ UNCHANGED <<frames, owed>>
       \/ /\ Dispatched(LunarLogger, Error)
          /\ EnterLog(t, LunarLogger, Error)
          /\ file_sink' = [file_sink EXCEPT ![t] = "failed"]
          /\ UNCHANGED <<fs, pos, lock>>
       \/ /\ ~Dispatched(LunarLogger, Error)
          /\ lock' = [lock EXCEPT !.writers = @ \ {t}]
          /\ pc' = [pc EXCEPT ![t] = "print"]
          /\ file_sink' = [file_sink EXCEPT ![t] = "failed"]
          /\ UNCHANGED <<fs, pos, frames, owed>>
    /\ UNCHANGED <<args, late, ret, INTERNAL_LOGGER, max_level, log_logger,
                   console, self, returns, emitted>>

RemoveFirst(seq, x) ==
    LET i == CHOOSE k \in 1..Len(seq) : seq[k] = x /\ \A j \in 1..(k - 1) : seq[j] # x
    IN  SubSeq(seq, 1, i - 1) \o SubSeq(seq, i + 1, Len(seq))

\* print!("{output}"), and the return of this call of Logger::log; a call made
\* by log::error! returns into the if-let of its caller, which ends.
PrintLine(t) ==
    /\ pc[t] = "print"
    /\ LET output == frames[t][Len(frames[t])]
           rest == SubSeq(frames[t], 1, Len(frames[t]) - 1)
       IN  /\ console' = Append(console, output)
           /\ owed' = [owed EXCEPT ![t] = RemoveFirst(@, output)]
           /\ frames' = [frames EXCEPT ![t] = rest]
           /\ pc' = [pc EXCEPT ![t] = IF rest = <<>> THEN "idle" ELSE "print"]
           /\ lock' = IF rest # <<>> THEN [lock EXCEPT !.writers = @ \ {t}] ELSE lock
           /\ file_sink' = IF rest = <<>> THEN [file_sink EXCEPT ![t] = "none"] ELSE file_sink
    /\ UNCHANGED <<args, late, ret, INTERNAL_LOGGER, max_level, log_logger, fs, pos,
                   self, returns, emitted>>

Next ==
    \/ \E t \in Threads : EnableLogger(t)
    \/ \E t \in Threads : create_file(t)
    \/ \E t \in Threads : open(t)
    \/ \E t \in Threads : set_max_level(t)
    \/ \E t \in Threads : set(t)
    \/ \E t \in Threads : set_logger(t)
    \/ ForeignSetLogger
    \/ \E t \in Threads : Emit(t)
    \/ \E t \in Threads : AcquireWrite(t)
    \/ \E t \in Threads : WriteFile(t)
    \/ \E t \in Threads : PrintLine(t)

Spec == Init /\ [][Next]_vars

-----------------------------------------------------------------------------
(* filter as a pure function: inputs drawn in Init, applied by one action *)

Returned == ret # <<>>
Ret == ret[1]

Patterns == StringsUpTo(MaxPatternLen)
Targets == StringsUpTo(MaxTargetLen)

InitFilter ==
    /\ args \in [filter : Patterns, filter_type : FilterTypes, data : Targets]
    /\ ret = <<>>
    /\ fs = [exists |-> FALSE, content |-> <<>>]
    /\ Quiet

CallFilter ==
    /\ ret = <<>>
    /\ ret' = <<filter(args.filter, args.filter_type, args.data)>>
    /\ UNCHANGED <<args, system>>

NextFilter == CallFilter

SpecFilter == InitFilter /\ [][NextFilter]_vars

-----------------------------------------------------------------------------
(* The accept decision as a pure function of the Logger and the record *)

X == <<"x">>
Y == <<"y">>
XY == <<"x", ":", ":", "y">>
YX == <<"y", ":", ":", "x">>

RuleNames == {X, Y}
RuleLevels == {Off, Warn, Trace}
Rules == [name : RuleNames, filter_type : FilterTypes, level : RuleLevels]
LogTargets == {<<>>, X, Y, XY, YX}

InitLog ==
    /\ \E fl \in SeqsUpTo(Rules, MaxFilters), d \in LevelFilters,
          tg \in LogTargets, lv \in Levels :
          args = [logger |-> [Logger_new EXCEPT !.filters = fl, !.default_level = d],
                  target |-> tg, msg_level |-> lv]
    /\ ret = <<>>
    /\ fs = [exists |-> FALSE, content |-> <<>>]
    /\ Quiet

CallLog ==
    /\ ret = <<>>
    /\ ret' = <<log_accepts(args.logger, args.target, args.msg_level)>>
    /\ UNCHANGED <<args, system>>

NextLog == CallLog

SpecLog == InitLog /\ [][NextLog]_vars

-----------------------------------------------------------------------------
(* C1 -- Logger::log accepts a record iff its level is <= T, where T is the
   level of the first rule, in insertion order, that matches the target, or
   the default level when no rule matches. *)

MatchingRules(logger, target) ==
    {i \in 1..Len(logger.filters) :
        filter(logger.filters[i].name, logger.filters[i].filter_type, target)}

Minimum(S) == CHOOSE m \in S : \A n \in S : m <= n

Threshold(logger, target) ==
    IF MatchingRules(logger, target) = {} THEN logger.default_level
    ELSE logger.filters[Minimum(MatchingRules(logger, target))].level

C1_FirstMatchDecides ==
    Returned =>
        (Ret <=> args.msg_level <= Threshold(args.logger, args.target))

\* The shadowing case was decided: ("x", Crate, Warn) then ("x", Crate, Trace),
\* an Info record from "x::y", rejected.
C1_Witness ==
    /\ Returned /\ Ret = FALSE
    /\ args.target = XY
    /\ args.msg_level = Info
    /\ args.logger.filters =
          <<[name |-> X, filter_type |-> Crate, level |-> Warn],
            [name |-> X, filter_type |-> Crate, level |-> Trace]>>

-----------------------------------------------------------------------------
(* C4 -- as amended: a Module rule matches iff its pattern is exactly equal
   to some component of the split target after the first one. *)

Components == split(args.data)

C4_ModuleMatchesLaterComponent ==
    (Returned /\ args.filter_type = Module) =>
        (Ret <=> \E i \in 2..Len(Components) : Components[i] = args.filter)

\* C4 as stated: a Module rule matches iff its pattern equals any component,
\* the first included.
C4_ModuleMatchesAnyComponent ==
    (Returned /\ args.filter_type = Module) =>
        (Ret <=> \E i \in 1..Len(Components) : Components[i] = args.filter)

\* A Module rule was matched by a later component of a three-component target.
C4_Witness ==
    /\ Returned /\ Ret = TRUE
    /\ args.filter_type = Module
    /\ Len(Components) = 3
    /\ Components[1] # args.filter

-----------------------------------------------------------------------------
(* C5 -- a Crate rule matches iff its pattern is exactly equal to the first
   "::"-separated component; a pattern equal only to a later component does
   not match. *)

C5_CrateMatchesFirstComponent ==
    (Returned /\ args.filter_type = Crate) =>
        /\ Ret <=> (Components[1] = args.filter)
        /\ (/\ Components[1] # args.filter
            /\ \E i \in 2..Len(Components) : Components[i] = args.filter) => Ret = FALSE

\* "y" against "x::y::x": equal to a later component only, and not matched.
C5_Witness ==
    /\ Returned /\ Ret = FALSE
    /\ args.filter_type = Crate
    /\ args.filter = Y
    /\ args.data = <<"x", ":", ":", "y", ":", ":", "x">>

-----------------------------------------------------------------------------
(* C6 -- a Module rule whose pattern equals the crate name (the first
   component) and no later component does not match; it matches only when
   the pattern equals some component after the first. *)

LaterComponents == {Components[i] : i \in 2..Len(Components)}

C6_ModuleSkipsCrateName ==
    (Returned /\ args.filter_type = Module) =>
        /\ (Components[1] = args.filter /\ args.filter \notin LaterComponents) => Ret = FALSE
        /\ Ret = TRUE => args.filter \in LaterComponents

\* The pattern is the crate name of a target with modules, and is not matched.
C6_Witness ==
    /\ Returned /\ Ret = FALSE
    /\ args.filter_type = Module
    /\ Len(Components) >= 2
    /\ Components[1] = args.filter

-----------------------------------------------------------------------------
(* C2 -- as amended: at most one enable_logger call returns Ok; a call begun
   after that one returned gets an error, LoggerAlreadySet or FileError; and
   the Logger held by INTERNAL_LOGGER is never replaced. *)

Results == {returns[i].result : i \in 1..Len(returns)}
OkCount == Cardinality({i \in 1..Len(returns) : returns[i].result = "Ok"})

C2_EnableOnce ==
    /\ [](OkCount <= 1)
    /\ [](\A i \in 1..Len(returns) :
            returns[i].late => returns[i].result \in {"LoggerAlreadySet", "FileError"})
    /\ [][INTERNAL_LOGGER # <<>> => INTERNAL_LOGGER' = INTERNAL_LOGGER]_vars

\* C2 as stated: at most one call returns Ok, every later call returns
\* LoggerAlreadySet.
C2_LaterCallsAlreadySet ==
    /\ OkCount <= 1
    /\ \A i \in 1..Len(returns) :
          returns[i].late => returns[i].result = "LoggerAlreadySet"

\* Two calls with different Loggers ran to their end: the first returned Ok,
\* the later one LoggerAlreadySet, and a line was printed after that.
C2_Witness ==
    /\ Len(returns) = 2
    /\ returns[1].result = "Ok"
    /\ returns[2] = [result |-> "LoggerAlreadySet", late |-> TRUE]
    /\ console # <<>>

-----------------------------------------------------------------------------
(* C3 -- once an enable_logger call has returned Ok, the gate of the log
   crate (log::set_max_level) keeps its value, whatever enable_logger and
   log calls follow. *)

C3_GateFixed ==
    [][("Ok" \in Results) => max_level' = max_level]_vars

-----------------------------------------------------------------------------
(* C7 -- content that the log file held before enable_logger is neither
   truncated nor written over: it stays at the head of the file through
   enable_logger with log_to_file and through the records written after. *)

HoldsOldContent(file) ==
    file.exists /\ Len(file.content) >= 1 /\ file.content[1] = OldLine

C7_OldContentKept ==
    [][HoldsOldContent(fs) => HoldsOldContent(fs')]_vars

-----------------------------------------------------------------------------
(* C8 -- every call of Logger::log returns: no thread panics in it, and no
   thread waits for the write guard of log_file that it holds itself. *)

SelfBlocked(t) == pc[t] = "lock" /\ t \in lock.writers

C8_LogReturns ==
    \A t \in Threads : pc[t] # "panicked" /\ ~SelfBlocked(t)

-----------------------------------------------------------------------------
(* C9 -- writes to the log file are mutually exclusive: at most one thread
   holds the write guard, the thread that writes holds it, and a thread
   outside the if-let of the file sink holds none. *)

InFileSink(t) == pc[t] = "write" \/ Len(frames[t]) >= 2

C9_WritesExclusive ==
    /\ Cardinality({t \in Threads : InFileSink(t)}) <= 1
    /\ \A t \in Threads : InFileSink(t) <=> t \in lock.writers

\* One thread is about to write under the guard while the other, with an
\* accepted record of its own, waits for the guard.
C9_Witness ==
    \E t, u \in Threads :
        /\ pc[t] = "write" /\ lock.writers = {t}
        /\ pc[u] = "lock" /\ u # t

-----------------------------------------------------------------------------
(* C10 -- every accepted record has its line written to the console,
   whatever the file sink does: a thread whose log call is over, or cannot go
   on, owes no line. *)

Stopped(t) == pc[t] \in {"idle", "panicked"} \/ SelfBlocked(t)

C10_ConsoleAlways ==
    \A t \in Threads : Stopped(t) => owed[t] = <<>>

-----------------------------------------------------------------------------
(* C11 -- when the file write of an accepted record fails, an Error record
   about the failure is handed to the same Logger::log, and the failure does
   not come back to the call site: the call that reports it does not panic. *)

WriteFails(t) == pc[t] = "write" /\ pc'[t] # "write" /\ pos' = pos

InFailureReport(t) == Len(frames[t]) >= 2

C11_FailureReportedNotPropagated ==
    [][\A t \in Threads :
          /\ (WriteFails(t) /\ Dispatched(LunarLogger, Error)) =>
                frames'[t] = Append(frames[t], Output(Installed, LunarLogger, Error))
          /\ InFailureReport(t) => pc'[t] # "panicked"]_vars

-----------------------------------------------------------------------------
(* C12 -- a Logger's log_file is Some iff its log_to_file flag is set and its
   enable_logger call succeeded: stated of the Logger in INTERNAL_LOGGER once
   the call that put it there has returned, and of a Logger whose call has
   not opened the file yet. *)

CallOfInstalledReturned ==
    INTERNAL_LOGGER # <<>> /\ \A t \in Threads : pc[t] # "set_logger"

C12_FileHandleIffEnabled ==
    /\ CallOfInstalledReturned =>
          (Installed.log_file = Some <=>
              (Installed.log_to_file /\ "Ok" \in Results))
    /\ \A t \in Threads :
          pc[t] \in {"create_file", "open"} => self[t][1].log_file = None

-----------------------------------------------------------------------------
(* C13 -- the gate of the log crate equals the most permissive level among
   the rule levels and the default level of the installed Logger, so every
   record that the installed Logger's own check accepts passes the gate. *)

MostPermissive(logger) ==
    CHOOSE m \in {logger.default_level}
                 \cup {logger.filters[i].level : i \in 1..Len(logger.filters)} :
        \A i \in 1..Len(logger.filters) :
            m >= logger.filters[i].level /\ m >= logger.default_level

GateTargets == {<<"x">>, <<"x", ":", ":", "y">>, <<"y">>, LunarLogger}

NoEnableInProgress == \A t \in Threads : pc[t] \notin EnablePcs

C13_GateAdmitsAccepted ==
    log_logger = "ours" =>
        /\ NoEnableInProgress => max_level = MostPermissive(Installed)
        /\ \A target \in GateTargets, level \in Levels :
              log_accepts(Installed, target, level) => level <= max_level


(* C14: for every call of Logger::log, a rejected record puts nothing on any
   sink (the step that rejects it changes neither console nor file, and a
   thread goes into the sinks only with a record the Logger accepts); a call
   that is accepted writes nothing on the console before its print!, a
   successful file write puts its line in exactly one slot of the file and
   leaves the other lines alone, and a call that returns has put exactly one
   line on the console, having attempted the file write iff the Logger holds a
   file handle.  A failed write puts no line in the file. *)
StartsLog(t) == frames[t] = <<>> /\ frames'[t] # <<>>
WritesOk(t) == pc[t] = "write" /\ pos' # pos
Completes(t) == pc[t] = "print" /\ Len(frames[t]) = 1 /\ pc'[t] = "idle"
C15_EmptySourceNeverMatches ==
    (Returned /\ args.data = <<>>) => Ret = FALSE


-----------------------------------------------------------------------------
(* Builder: the chained setters and create *)

MaxBuilderCalls == 3   \* setter calls on one Builder before create

\* Builder::new
Builder_new ==
    [crate_filters |-> <<>>, mod_filters |-> <<>>, default_level |-> Info,
     log_to_file |-> FALSE, log_filename |-> <<>>, use_color |-> TRUE]

\* Builder::add_crate_filter
add_crate_filter(builder, crate_name, level) ==
    [builder EXCEPT !.crate_filters = Append(@, <<crate_name, level>>)]

\* Builder::add_mod_filter
add_mod_filter(builder, crate_name, level) ==
    [builder EXCEPT !.mod_filters = Append(@, <<crate_name, level>>)]

\* Builder::log_to_file
log_to_file(builder) == [builder EXCEPT !.log_to_file = TRUE]

\* Builder::log_filname
log_filname(builder, filename) == [builder EXCEPT !.log_filename = <<filename>>]

\* The for loops of create: add_filter for each pair, in the Vec's order.
RECURSIVE AddFilters(_, _, _)
AddFilters(logger, pairs, filter_type) ==
    IF pairs = <<>> THEN logger
    ELSE AddFilters(add_filter(logger, pairs[1][1], filter_type, pairs[1][2]),
                    Tail(pairs), filter_type)

\* Builder::create: the Logger it returns, or the panic of the unwrap.
create(builder) ==
    LET colored == use_color(Logger_new, builder.use_color)
        leveled == set_default_filter(colored, builder.default_level)
        crates == AddFilters(leveled, builder.crate_filters, Crate)
        mods == AddFilters(crates, builder.mod_filters, Module)
    IN  IF ~builder.log_to_file THEN [outcome |-> "created", logger |-> <<mods>>]
        ELSE IF builder.log_filename = <<>>
        THEN [outcome |-> "created", logger |-> <<set_log_to_file(mods)>>]
        ELSE LET named == set_log_file_name(set_log_to_file(mods), builder.log_filename[1])
             IN  IF named.result = "Ok"
                 THEN [outcome |-> "created", logger |-> <<named.logger>>]
                 ELSE [outcome |-> "panicked", logger |-> <<>>]

\* args holds the Builder as the chain of calls has made it, and the rules in
\* the order the calls added them.
InitBuilder ==
    /\ args = [builder |-> Builder_new, added |-> <<>>, calls |-> 0]
    /\ ret = <<>>
    /\ fs = [exists |-> FALSE, content |-> <<>>]
    /\ Quiet

CanCall == ret = <<>> /\ args.calls < MaxBuilderCalls

CallAddCrateFilter ==
    /\ CanCall
    /\ \E name \in RuleNames, level \in RuleLevels :
          args' = [builder |-> add_crate_filter(args.builder, name, level),
                   added |-> Append(args.added,
                                    [name |-> name, filter_type |-> Crate, level |-> level]),
                   calls |-> args.calls + 1]
    /\ UNCHANGED <<ret, system>>

CallAddModFilter ==
    /\ CanCall
    /\ \E name \in RuleNames, level \in RuleLevels :
          args' = [builder |-> add_mod_filter(args.builder, name, level),
                   added |-> Append(args.added,
                                    [name |-> name, filter_type |-> Module, level |-> level]),
                   calls |-> args.calls + 1]
    /\ UNCHANGED <<ret, system>>

CallLogToFile ==
    /\ CanCall
    /\ args' = [args EXCEPT !.builder = log_to_file(@), !.calls = @ + 1]
    /\ UNCHANGED <<ret, system>>

CallLogFilname ==
    /\ CanCall
    /\ \E filename \in Paths :
          args' = [args EXCEPT !.builder = log_filname(@, filename), !.calls = @ + 1]
    /\ UNCHANGED <<ret, system>>

CallCreate ==
    /\ ret = <<>>
    /\ ret' = <<create(args.builder)>>
    /\ UNCHANGED <<args, system>>

NextBuilder ==
    \/ CallAddCrateFilter
    \/ CallAddModFilter
    \/ CallLogToFile
    \/ CallLogFilname
    \/ CallCreate

SpecBuilder == InitBuilder /\ [][NextBuilder]_vars

(* C16: the Logger that Builder::create returns holds the rules in the order
   the add_crate_filter / add_mod_filter calls added them. *)
C16_RulesInCallOrder ==
    (Returned /\ Ret.outcome = "created") => Ret.logger[1].filters = args.added

(* C17: a log file path that is a directory never makes Builder::create
   panic. *)
C17_DirectoryPathNeverPanics ==
    (Returned /\ args.builder.log_filename = <<"logs/">>) => Ret.outcome # "panicked"


(* C18: an enable_logger call that returns an error leaves the cell
   INTERNAL_LOGGER as it was; once no call is running the cell is occupied
   iff some call returned Ok. *)
C18_FailedEnableLeavesCell ==
    NoEnableInProgress => (INTERNAL_LOGGER # <<>> <=> OkCount >= 1)

(* C19: the log file is append-only once a dispatcher is installed: after every
   step of an enable_logger call or of a log call, the file's previous
   content is a prefix of its content. *)
IsPrefix(before, after) ==
    Len(before) <= Len(after) /\ SubSeq(after, 1, Len(before)) = before
C19_AppendOnly ==
    [][OkCount >= 1 => IsPrefix(fs.content, fs'.content)]_vars

====
